---- MODULE Spec2Model ----
(***************************************************************************)
(* Distributed sliding-window rate limiter (src/src/rate_limiter.py), its  *)
(* admission handler (src/src/server.py) and its limits registry           *)
(* (src/src/config.py), over a shared Redis store.                         *)
(*                                                                         *)
(* Time is counted in clock ticks of 1/TicksPerSecond seconds; all nodes   *)
(* run on one machine (src/start_multi_nodes.py) and read the same clock.  *)
(* A store operation is one atomic step at the store (Redis executes       *)
(* commands, and MULTI/EXEC blocks, one at a time); whatever the client    *)
(* computes from its own clock before sending the operation (the segment   *)
(* of a Record, the field list of a window sum, the cut-off of a cleanup)  *)
(* is computed in the step before and may be stale when the store acts.    *)
(***************************************************************************)
EXTENDS Integers, Sequences, FiniteSets, Bags, TLC

(***************************************************************************)
(* Bounds of the model.                                                    *)
(***************************************************************************)
\* requests of one run
MaxRequests == 2
\* clock advances of one run
MaxClockSteps == 1
\* clock ticks per second (the clock's resolution in the model)
TicksPerSecond == 2
\* requests of one sequential run (SpecSeq)
MaxSeqRequests == 80
\* clock advances of one run of SpecWindow
MaxWindowClockSteps == 2
\* clock advances of one run of SpecTrailing
MaxTrailingClockSteps == 2
\* the segment the clock is in during a run of SpecSum
SumSegment == 13
\* the requests in flight at once in SpecCore
MaxCoreRequests == 2
\* clock advances of a run of SpecStale during which requests are handled
MaxArrivalClockSteps == 2
\* clock ticks between a snapshot and the headers built from it (SpecHeaders)
MaxHeaderClockSteps == 14

(***************************************************************************)
(* Config (src/src/config.py).                                             *)
(***************************************************************************)
SLIDING_WINDOW_SIZE_SECONDS == 60
WINDOW_SEGMENTS == 12

DEFAULT_RATE_LIMITS == [input_tpm |-> 100000, output_tpm |-> 100000, rpm |-> 100]

API_KEY_LIMITS ==
    ("test-key-1" :> [input_tpm |-> 1000, output_tpm |-> 1000, rpm |-> 10000]) @@
    ("test-key-2" :> [input_tpm |-> 10000, output_tpm |-> 10000, rpm |-> 2000]) @@
    ("test-key-3" :> [input_tpm |-> 10000, output_tpm |-> 10000, rpm |-> 5000])

get_api_key_limits(api_key) ==
    IF api_key \in DOMAIN API_KEY_LIMITS THEN API_KEY_LIMITS[api_key]
    ELSE DEFAULT_RATE_LIMITS

(***************************************************************************)
(* RateLimiter.__init__ and the segment arithmetic.                        *)
(***************************************************************************)
window_size == SLIDING_WINDOW_SIZE_SECONDS
segments == WINDOW_SEGMENTS
segment_size == window_size \div segments

\* the three counter hashes of a key, in the order Record writes them
Metrics == <<"rpm", "input_tpm", "output_tpm">>
MetricSet == {"rpm", "input_tpm", "output_tpm"}

\* int(time.time()) // segment_size at clock value t
get_current_segment(t) == (t \div TicksPerSecond) \div segment_size

get_window_start_one_more(t) == get_current_segment(t) - segments

\* the first segment of the window at clock value t (the last is the current one)
get_window_start(t) == get_current_segment(t) - segments + 1

(***************************************************************************)
(* The store: Redis hashes with integer fields, and key expiry.            *)
(***************************************************************************)
\* a hash that does not exist
NoHash == <<>>
\* a key with no expiry set (or that does not exist)
NoExpiry == -1

HGet(h, f) == IF f \in DOMAIN h THEN h[f] ELSE 0

HIncrBySet(h, f, d) == IF f \in DOMAIN h THEN [h EXCEPT ![f] = d] ELSE h @@ (f :> d)

HIncrByTwice(h, f, d) ==
    IF f \in DOMAIN h THEN [h EXCEPT ![f] = @ + 2 * d] ELSE h @@ (f :> 2 * d)

\* HINCRBY key field delta
HIncrBy(h, f, d) == IF f \in DOMAIN h THEN [h EXCEPT ![f] = @ + d] ELSE h @@ (f :> d)

\* HDEL key field...
HDel(h, fs) == [f \in (DOMAIN h) \ fs |-> h[f]]

RECURSIVE SumRange(_, _, _)
\* the sum of the fields lo..hi of a hash, a missing field counting 0
SumRange(h, lo, hi) == IF lo > hi THEN 0 ELSE HGet(h, lo) + SumRange(h, lo + 1, hi)

RECURSIVE SumFields(_, _)
\* the sum of the fields fs of a hash
SumFields(h, fs) ==
    IF fs = {} THEN 0
    ELSE LET f == CHOOSE x \in fs : TRUE IN HGet(h, f) + SumFields(h, fs \ {f})

\* everything a hash holds
HashTotal(h) == SumFields(h, DOMAIN h)

get_window_sum_whole_hash(h, start_segment) == HashTotal(h)

get_window_sum_from_segment_before(h, start_segment) ==
    SumRange(h, start_segment - 1, start_segment + segments - 1)

get_window_sum_off_by_one(h, start_segment) ==
    SumRange(h, start_segment, start_segment + segments - 2)

\* _get_window_sum: HMGET of the `segments` fields from start_segment on, summed
get_window_sum(h, start_segment) == SumRange(h, start_segment, start_segment + segments - 1)

(***************************************************************************)
(* Token estimator. A text is modelled by its token count; a message is a  *)
(* record of the token counts of its role and its content.                 *)
(***************************************************************************)
RECURSIVE estimate_messages(_)
estimate_messages(messages) ==
    IF messages = <<>> THEN 0
    ELSE Head(messages).role + Head(messages).content + 4 + estimate_messages(Tail(messages))

\* estimate_request_tokens
estimate_request_tokens(messages) == estimate_messages(messages) + 2

\* max_tokens: Optional[int]
NoMaxTokens == [set |-> FALSE, value |-> 0]
MaxTokens(n) == [set |-> TRUE, value |-> n]
\* Python's truth value of an Optional[int]
Truthy(mt) == mt.set /\ mt.value # 0

reserved_output_none_when_unset(mt) == IF Truthy(mt) THEN mt.value ELSE 0

\* output_tokens = request.max_tokens if request.max_tokens else 1000
reserved_output(mt) == IF Truthy(mt) THEN mt.value ELSE 1000

(***************************************************************************)
(* Stub responder (server.py): one of five canned templates, followed by   *)
(* max_tokens // 20 copies of a filler sentence when max_tokens > 50.      *)
(* TemplateTokens are the token counts of the shortest and of the longest  *)
(* template and AdditionalTokens that of one filler sentence, under the    *)
(* cl100k encoding.                                                        *)
(***************************************************************************)
TemplateTokens == {12, 15}
AdditionalTokens == 9

\* count_tokens(_generate_mock_content(request)) when random.choice picks a
\* template of `base` tokens
generate_mock_content(base, mt) ==
    IF Truthy(mt) /\ mt.value > 50 THEN base + AdditionalTokens * (mt.value \div 20)
    ELSE base

(***************************************************************************)
(* Limiter core: the admission test and the response headers.              *)
(***************************************************************************)
Max(a, b) == IF a >= b THEN a ELSE b

check_limits_rpm_inclusive(current_rpm, current_input_tpm, current_output_tpm, input_tokens, output_tokens, limits) ==
    IF current_rpm > limits.rpm THEN FALSE
    ELSE IF current_input_tpm + input_tokens > limits.input_tpm THEN FALSE
    ELSE IF current_output_tpm + output_tokens > limits.output_tpm THEN FALSE
    ELSE TRUE

check_limits_strict(current_rpm, current_input_tpm, current_output_tpm, input_tokens, output_tokens, limits) ==
    IF current_rpm + 1 > limits.rpm THEN FALSE
    ELSE IF current_input_tpm + input_tokens > limits.input_tpm THEN FALSE
    ELSE IF current_output_tpm + output_tokens >= limits.output_tpm THEN FALSE
    ELSE TRUE

check_limits_without_input(current_rpm, current_input_tpm, current_output_tpm, input_tokens, output_tokens, limits) ==
    IF current_rpm + 1 > limits.rpm THEN FALSE
    ELSE IF current_output_tpm + output_tokens > limits.output_tpm THEN FALSE
    ELSE TRUE

\* check_rate_limit, "检查是否超限": the three tests in the order of the code
check_limits(current_rpm, current_input_tpm, current_output_tpm, input_tokens, output_tokens, limits) ==
    IF current_rpm + 1 > limits.rpm THEN FALSE
    ELSE IF current_input_tpm + input_tokens > limits.input_tpm THEN FALSE
    ELSE IF current_output_tpm + output_tokens > limits.output_tpm THEN FALSE
    ELSE TRUE

\* int(x) of Python for x = n / TicksPerSecond: truncation toward zero
TruncSeconds(n) == IF n >= 0 THEN n \div TicksPerSecond ELSE -((-n) \div TicksPerSecond)

get_rate_limit_headers_unclamped(info, t) ==
    [present |-> TRUE,
     limit_requests |-> info.rpm_limit,
     limit_tokens_input |-> info.input_tpm_limit,
     limit_tokens_output |-> info.output_tpm_limit,
     remaining_requests |-> info.rpm_limit - info.rpm_used,
     remaining_tokens_input |-> info.input_tpm_limit - info.input_tpm_used,
     remaining_tokens_output |-> info.output_tpm_limit - info.output_tpm_used,
     reset |-> info.window_end,
     retry_after |-> TruncSeconds(info.window_end * TicksPerSecond - t)]

NoHeaders ==
    [present |-> FALSE, limit_requests |-> 0, limit_tokens_input |-> 0,
     limit_tokens_output |-> 0, remaining_requests |-> 0,
     remaining_tokens_input |-> 0, remaining_tokens_output |-> 0,
     reset |-> 0, retry_after |-> 0]

\* get_rate_limit_headers at clock value t; info is the RateLimitInfo (window_end
\* in seconds)
get_rate_limit_headers(info, t) ==
    [present |-> TRUE,
     limit_requests |-> info.rpm_limit,
     limit_tokens_input |-> info.input_tpm_limit,
     limit_tokens_output |-> info.output_tpm_limit,
     remaining_requests |-> Max(0, info.rpm_limit - info.rpm_used),
     remaining_tokens_input |-> Max(0, info.input_tpm_limit - info.input_tpm_used),
     remaining_tokens_output |-> Max(0, info.output_tpm_limit - info.output_tpm_used),
     reset |-> info.window_end,
     retry_after |-> TruncSeconds(info.window_end * TicksPerSecond - t)]

NoInfo ==
    [input_tpm_used |-> 0, output_tpm_used |-> 0, rpm_used |-> 0,
     input_tpm_limit |-> 0, output_tpm_limit |-> 0, rpm_limit |-> 0,
     window_start |-> 0, window_end |-> 0]

(***************************************************************************)
(* Pipelines. redis-py's pipeline() is transactional by default: the       *)
(* commands travel as one MULTI ... EXEC block, which the store runs whole *)
(* or, when the connection breaks before EXEC arrives, not at all.         *)
(***************************************************************************)
record_commands_swapped(q, t) ==
    << [op |-> "hincrby", metric |-> "rpm", field |-> q.current_segment, value |-> 1],
       [op |-> "hincrby", metric |-> "input_tpm", field |-> q.current_segment,
        value |-> q.completion_tokens],
       [op |-> "hincrby", metric |-> "output_tpm", field |-> q.current_segment,
        value |-> q.prompt_tokens],
       [op |-> "expire", metric |-> "rpm", field |-> 0,
        value |-> t + window_size * 2 * TicksPerSecond],
       [op |-> "expire", metric |-> "input_tpm", field |-> 0,
        value |-> t + window_size * 2 * TicksPerSecond],
       [op |-> "expire", metric |-> "output_tpm", field |-> 0,
        value |-> t + window_size * 2 * TicksPerSecond] >>

record_commands_without_expire(q, t) ==
    << [op |-> "hincrby", metric |-> "rpm", field |-> q.current_segment, value |-> 1],
       [op |-> "hincrby", metric |-> "input_tpm", field |-> q.current_segment,
        value |-> q.prompt_tokens],
       [op |-> "hincrby", metric |-> "output_tpm", field |-> q.current_segment,
        value |-> q.completion_tokens] >>

\* the commands of record_usage, in order
record_commands(q, t) ==
    << [op |-> "hincrby", metric |-> "rpm", field |-> q.current_segment, value |-> 1],
       [op |-> "hincrby", metric |-> "input_tpm", field |-> q.current_segment,
        value |-> q.prompt_tokens],
       [op |-> "hincrby", metric |-> "output_tpm", field |-> q.current_segment,
        value |-> q.completion_tokens],
       [op |-> "expire", metric |-> "rpm", field |-> 0,
        value |-> t + window_size * 2 * TicksPerSecond],
       [op |-> "expire", metric |-> "input_tpm", field |-> 0,
        value |-> t + window_size * 2 * TicksPerSecond],
       [op |-> "expire", metric |-> "output_tpm", field |-> 0,
        value |-> t + window_size * 2 * TicksPerSecond] >>

\* one command on the hashes and expiries of one api key (EXPIRE of a key that
\* does not exist does nothing)
ApplyCommand(st, c) ==
    IF c.op = "hincrby"
    THEN [st EXCEPT !.hashes[c.metric] = HIncrBy(@, c.field, c.value)]
    ELSE IF st.hashes[c.metric] = NoHash THEN st
    ELSE [st EXCEPT !.expires[c.metric] = c.value]

RECURSIVE ApplyCommands(_, _, _)
\* the first n commands of a pipeline
ApplyCommands(st, cmds, n) ==
    IF n = 0 \/ cmds = <<>> THEN st
    ELSE ApplyCommands(ApplyCommand(st, Head(cmds)), Tail(cmds), n - 1)

ExecutedOnFailurePlain(len, p) == p

\* how many commands of a pipeline of len commands the store has run when the
\* connection breaks after p of them were sent
ExecutedOnFailure(len, p) == IF p < len THEN 0 ELSE len

\* the metrics among the first n commands' increments
IncrementedMetrics(cmds, n) ==
    {cmds[i].metric : i \in {j \in 1..Len(cmds) : j <= n /\ cmds[j].op = "hincrby"}}

(***************************************************************************)
(* What clients send.                                                      *)
(***************************************************************************)
\* the nodes; a node keeps no state of its own besides its store connection
\* (RateLimiterServer.__init__), so requests are spread over them in turn
NumNodes == 2
node_of(r) == ((r - 1) % NumNodes) + 1

\* the Authorization header: missing, not starting with "Bearer ", or a key
Authorizations ==
    {[kind |-> "missing", key |-> ""], [kind |-> "malformed", key |-> ""]} \cup
    {[kind |-> "bearer", key |-> k] : k \in {"test-key-1", "test-key-2", "no-such-key"}}

\* messages=[{role: "user", content: "Hi"}]
HiMessages == << [role |-> 1, content |-> 1] >>
\* one message whose content tokenizes to 1500 tokens
LongMessages == << [role |-> 1, content |-> 1500] >>
\* one message that makes the request's estimate 3000 tokens
Messages3000 == << [role |-> 1, content |-> 2993] >>

Bodies ==
    {[messages |-> HiMessages, max_tokens |-> NoMaxTokens],
     [messages |-> HiMessages, max_tokens |-> MaxTokens(0)],
     [messages |-> HiMessages, max_tokens |-> MaxTokens(1)],
     [messages |-> HiMessages, max_tokens |-> MaxTokens(100)],
     [messages |-> LongMessages, max_tokens |-> NoMaxTokens]}

(***************************************************************************)
(* State.                                                                  *)
(***************************************************************************)
VARIABLES
    now,        \* the wall clock, in ticks
    clockSteps, \* how many times the clock has advanced
    storeUp,    \* whether the store is reachable
    store,      \* store[api_key][metric]: the counter hash (segment -> count)
    expireAt,   \* expireAt[api_key][metric]: the clock value the key expires after
    req,        \* req[r]: the handler's state for request r
    tasks,      \* the bag of spawned _clean_old_segments tasks
    removed     \* removed[api_key][metric]: what cleanup and expiry took away (history)

vars == <<now, clockSteps, storeUp, store, expireAt, req, tasks, removed>>

Keys == DOMAIN API_KEY_LIMITS
Requests == 1..MaxRequests

NewRequest ==
    [pc |-> "new", node |-> 0, api_key |-> "", max_tokens |-> NoMaxTokens,
     input_tokens |-> 0, output_tokens |-> 0, start_segment |-> 0,
     current_rpm |-> 0, current_input_tpm |-> 0, current_output_tpm |-> 0,
     checked |-> FALSE, allowed |-> FALSE, info |-> NoInfo,
     status |-> 0, headers |-> NoHeaders, served |-> FALSE,
     prompt_tokens |-> 0, completion_tokens |-> 0, current_segment |-> 0,
     applied |-> {}, recorded |-> FALSE, read_failed |-> FALSE,
     record_failed |-> FALSE, overlapped |-> FALSE, disconnected |-> FALSE,
     disconnected_at |-> "", recorded_at |-> 0]

EmptyStore == [k \in Keys |-> [m \in MetricSet |-> NoHash]]

\* an empty store, reachable, and no cleanup task scheduled
InitStore ==
    /\ now = 0
    /\ clockSteps = 0
    /\ storeUp = TRUE
    /\ store = EmptyStore
    /\ expireAt = [k \in Keys |-> [m \in MetricSet |-> NoExpiry]]
    /\ tasks = EmptyBag
    /\ removed = [k \in Keys |-> [m \in MetricSet |-> 0]]

Init ==
    /\ InitStore
    /\ req = [r \in Requests |-> NewRequest]

(***************************************************************************)
(* The admission handler, chat_completions, step by step.                  *)
(***************************************************************************)
authenticate_with_defaults(authorization) == authorization.kind = "bearer"

\* lines 84-97: the header is there, starts with "Bearer ", and names a key of
\* the registry
authenticate(authorization) ==
    authorization.kind = "bearer" /\ authorization.key \in DOMAIN API_KEY_LIMITS

\* the synchronous head of check_rate_limit(api_key, request), up to its first
\* await: the estimates, and the field list of the first window sum
begin_check(q, r, api_key, body, t) ==
    [q EXCEPT !.pc = "sum_rpm", !.node = node_of(r),
              !.api_key = api_key,
              !.max_tokens = body.max_tokens,
              !.input_tokens = estimate_request_tokens(body.messages),
              !.output_tokens = reserved_output(body.max_tokens),
              !.start_segment = get_window_start(t)]

\* lines 83-97 and the synchronous head of check_rate_limit: authentication,
\* the estimates, and the field list of the first window sum
ChatCompletions(r, authorization, body) ==
    /\ req[r].pc = "new"
    /\ \A r2 \in DOMAIN req : r2 < r => req[r2].pc # "new"
    /\ IF ~authenticate(authorization)
       THEN req' = [req EXCEPT ![r] = [@ EXCEPT !.pc = "done", !.node = node_of(r), !.status = 401]]
       ELSE req' = [req EXCEPT ![r] = begin_check(req[r], r, authorization.key, body, now)]
    /\ UNCHANGED <<now, clockSteps, storeUp, store, expireAt, tasks, removed>>

rate_limit_info_counting_request(q, current_output_tpm, t) ==
    LET limits == get_api_key_limits(q.api_key) IN
    [input_tpm_used |-> q.current_input_tpm + q.input_tokens,
     output_tpm_used |-> current_output_tpm + q.output_tokens,
     rpm_used |-> q.current_rpm + 1,
     input_tpm_limit |-> limits.input_tpm, output_tpm_limit |-> limits.output_tpm,
     rpm_limit |-> limits.rpm,
     window_start |-> get_window_start(t) * segment_size,
     window_end |-> (get_current_segment(t) + 1) * segment_size]

\* the RateLimitInfo check_rate_limit builds at clock value t from what it read
rate_limit_info(q, current_output_tpm, t) ==
    LET limits == get_api_key_limits(q.api_key) IN
    [input_tpm_used |-> q.current_input_tpm, output_tpm_used |-> current_output_tpm,
     rpm_used |-> q.current_rpm,
     input_tpm_limit |-> limits.input_tpm, output_tpm_limit |-> limits.output_tpm,
     rpm_limit |-> limits.rpm,
     window_start |-> get_window_start(t) * segment_size,
     window_end |-> (get_current_segment(t) + 1) * segment_size]

\* the handler's branch on `allowed`: 429 at once, or on to the responder
after_check_always_serve(q, allowed) == [q EXCEPT !.pc = "serving"]

after_check(q, allowed) ==
    IF allowed THEN [q EXCEPT !.pc = "serving"]
    ELSE [q EXCEPT !.pc = "done", !.status = 429]

\* the reply of the third window sum, the decision, the headers and the branch
finish_check(q, current_output_tpm, t) ==
    LET limits == get_api_key_limits(q.api_key)
        allowed == check_limits(q.current_rpm, q.current_input_tpm, current_output_tpm, q.input_tokens, q.output_tokens, limits)
        info == rate_limit_info(q, current_output_tpm, t)
    IN after_check([q EXCEPT !.current_output_tpm = current_output_tpm,
                             !.checked = TRUE, !.allowed = allowed, !.info = info,
                             !.headers = get_rate_limit_headers(info, t)],
                   allowed)

check_commands_reserving(q, t) ==
    << [op |-> "hincrby", metric |-> "rpm", field |-> get_current_segment(t), value |-> 1] >>

\* the write commands check_rate_limit sends to the store: none, it only reads
check_commands(q, t) == << >>

\* the hashes and expiries of one api key after a pipeline's first n commands
KeyState(k) == [hashes |-> store[k], expires |-> expireAt[k]]

\* one `await self._get_window_sum(key)` of check_rate_limit: the HMGET at the
\* store, and what the handler does with the reply before it suspends again
GetWindowSum(r) ==
    /\ req[r].pc \in {"sum_rpm", "sum_input_tpm", "sum_output_tpm"}
    /\ storeUp
    /\ LET q == req[r]
           total(m) == get_window_sum(store[q.api_key][m], q.start_segment)
           cmds == check_commands(q, now)
           st == ApplyCommands(KeyState(q.api_key), cmds, Len(cmds))
       IN /\ req' = [req EXCEPT ![r] =
                CASE q.pc = "sum_rpm" ->
                        [q EXCEPT !.pc = "sum_input_tpm", !.current_rpm = total("rpm"),
                                  !.start_segment = get_window_start(now)]
                  [] q.pc = "sum_input_tpm" ->
                        [q EXCEPT !.pc = "sum_output_tpm",
                                  !.current_input_tpm = total("input_tpm"),
                                  !.start_segment = get_window_start(now)]
                  [] OTHER -> finish_check(q, total("output_tpm"), now)]
          /\ store' = [store EXCEPT ![q.api_key] = st.hashes]
          /\ expireAt' = [expireAt EXCEPT ![q.api_key] = st.expires]
    /\ UNCHANGED <<now, clockSteps, storeUp, tasks, removed>>

on_read_error_fail_open(q, t) ==
    [finish_check([q EXCEPT !.current_rpm = 0, !.current_input_tpm = 0], 0, t)
        EXCEPT !.read_failed = TRUE]

\* the HMGET raises: nothing catches the exception in _get_window_sum,
\* check_rate_limit or chat_completions, so the framework answers 500
on_read_error(q, t) == [q EXCEPT !.pc = "done", !.status = 500, !.read_failed = TRUE]

GetWindowSumError(r) ==
    /\ req[r].pc \in {"sum_rpm", "sum_input_tpm", "sum_output_tpm"}
    /\ ~storeUp
    /\ req' = [req EXCEPT ![r] = on_read_error(@, now)]
    /\ UNCHANGED <<now, clockSteps, storeUp, store, expireAt, tasks, removed>>

\* _generate_mock_response once its sleep is over, and the synchronous head of
\* record_usage: the usage report and the segment the Record will be written to
GenerateMockResponse(r, base) ==
    /\ req[r].pc = "serving"
    /\ LET q == req[r]
       IN req' = [req EXCEPT ![r] =
            [q EXCEPT !.pc = "record", !.served = TRUE,
                      !.prompt_tokens = q.input_tokens,
                      !.completion_tokens = generate_mock_content(base, q.max_tokens),
                      !.current_segment = get_current_segment(now)]]
    /\ UNCHANGED <<now, clockSteps, storeUp, store, expireAt, tasks, removed>>

spawn_clean_old_segments_to_current(k, t) ==
    SetToBag({[key |-> k, metric |-> m, phase |-> "hkeys",
               start_segment |-> get_current_segment(t) + 1, fields |-> {}] : m \in MetricSet})

\* the three cleanup tasks record_usage spawns; each computes its cut-off when
\* it starts
spawn_clean_old_segments(k, t) ==
    SetToBag({[key |-> k, metric |-> m, phase |-> "hkeys",
               start_segment |-> get_window_start(t), fields |-> {}] : m \in MetricSet})

\* another Record of the same key, from another node, is between computing its
\* segment and the store running its pipeline (history)
RecordInFlightElsewhere(r) ==
    \E r2 \in DOMAIN req \ {r} :
        /\ req[r2].pc = "record"
        /\ req[r2].api_key = req[r].api_key
        /\ req[r2].node # req[r].node

\* record_usage: the store runs the pipeline, the tasks are spawned, 200 is sent
RecordUsage(r) ==
    /\ req[r].pc = "record"
    /\ storeUp
    /\ LET q == req[r]
           cmds == record_commands(q, now)
           st == ApplyCommands(KeyState(q.api_key), cmds, Len(cmds))
       IN /\ store' = [store EXCEPT ![q.api_key] = st.hashes]
          /\ expireAt' = [expireAt EXCEPT ![q.api_key] = st.expires]
          /\ tasks' = tasks (+) spawn_clean_old_segments(q.api_key, now)
          /\ req' = [req EXCEPT ![r] =
                [q EXCEPT !.pc = "done", !.status = 200, !.recorded = TRUE,
                          !.recorded_at = now,
                          !.applied = IncrementedMetrics(cmds, Len(cmds)),
                          !.overlapped = RecordInFlightElsewhere(r)]]
    /\ UNCHANGED <<now, clockSteps, storeUp, removed>>

on_record_error_answer_ok(q) ==
    [q EXCEPT !.pc = "done", !.status = 200, !.record_failed = TRUE]

\* pipe.execute() raises and nothing catches the exception: the framework
\* answers 500
on_record_error(q) == [q EXCEPT !.pc = "done", !.status = 500, !.record_failed = TRUE]

\* pipe.execute() raises: the store was unreachable, or became unreachable
\* after p commands were sent; the exception leaves record_usage before any
\* task is spawned
RecordUsageError(r) ==
    /\ req[r].pc = "record"
    /\ LET q == req[r]
           cmds == record_commands(q, now)
       IN \E p \in 0..Len(cmds) :
            /\ storeUp \/ p = 0
            /\ LET n == IF storeUp THEN ExecutedOnFailure(Len(cmds), p) ELSE 0
                   st == ApplyCommands(KeyState(q.api_key), cmds, n)
               IN /\ store' = [store EXCEPT ![q.api_key] = st.hashes]
                  /\ expireAt' = [expireAt EXCEPT ![q.api_key] = st.expires]
                  /\ req' = [req EXCEPT ![r] =
                        [on_record_error(q) EXCEPT !.applied = IncrementedMetrics(cmds, n),
                                                   !.recorded_at = now]]
    /\ storeUp' = FALSE
    /\ UNCHANGED <<now, clockSteps, tasks, removed>>

(***************************************************************************)
(* _clean_old_segments, a background task.                                 *)
(***************************************************************************)
\* HKEYS, and the choice of the fields to delete
CleanOldSegmentsHKeys(t) ==
    /\ t \in BagToSet(tasks)
    /\ t.phase = "hkeys"
    /\ storeUp
    /\ LET all_fields == DOMAIN store[t.key][t.metric]
           fields_to_delete == {f \in all_fields : f < t.start_segment}
       IN tasks' = IF fields_to_delete = {} THEN tasks (-) SetToBag({t})
                   ELSE (tasks (-) SetToBag({t})) (+)
                        SetToBag({[t EXCEPT !.phase = "hdel", !.fields = fields_to_delete]})
    /\ UNCHANGED <<now, clockSteps, storeUp, store, expireAt, req, removed>>

\* HDEL; Redis drops a hash, and its expiry, with its last field
CleanOldSegmentsHDel(t) ==
    /\ t \in BagToSet(tasks)
    /\ t.phase = "hdel"
    /\ storeUp
    /\ LET h == store[t.key][t.metric]
           h2 == HDel(h, t.fields)
       IN /\ store' = [store EXCEPT ![t.key][t.metric] = h2]
          /\ expireAt' = IF h2 = NoHash
                         THEN [expireAt EXCEPT ![t.key][t.metric] = NoExpiry]
                         ELSE expireAt
          /\ removed' = [removed EXCEPT ![t.key][t.metric] = @ + SumFields(h, t.fields)]
    /\ tasks' = tasks (-) SetToBag({t})
    /\ UNCHANGED <<now, clockSteps, storeUp, req>>

\* a store call of the task raises: the task ends, nobody awaits it
CleanOldSegmentsError(t) ==
    /\ t \in BagToSet(tasks)
    /\ ~storeUp
    /\ tasks' = tasks (-) SetToBag({t})
    /\ UNCHANGED <<now, clockSteps, storeUp, store, expireAt, req, removed>>

(***************************************************************************)
(* The environment: the clock, key expiry, and the store's availability.   *)
(***************************************************************************)
\* the clock advances by a tick, a segment or a window
TickSteps == {1, segment_size * TicksPerSecond, window_size * TicksPerSecond}

Expired(k, m, t) == expireAt[k][m] # NoExpiry /\ t > expireAt[k][m]

\* the clock advances by d ticks; keys whose expiry has passed are gone
Advance(d) ==
    /\ clockSteps' = clockSteps + 1
    /\ now' = now + d
    /\ store' = [k \in Keys |-> [m \in MetricSet |->
                    IF Expired(k, m, now') THEN NoHash ELSE store[k][m]]]
    /\ expireAt' = [k \in Keys |-> [m \in MetricSet |->
                    IF Expired(k, m, now') THEN NoExpiry ELSE expireAt[k][m]]]
    /\ removed' = [k \in Keys |-> [m \in MetricSet |->
                    IF Expired(k, m, now') THEN removed[k][m] + HashTotal(store[k][m])
                    ELSE removed[k][m]]]
    /\ UNCHANGED <<storeUp, req, tasks>>

Tick(d) == clockSteps < MaxClockSteps /\ Advance(d)

\* no handler is between its first and its last step
Idle == \A r \in DOMAIN req : req[r].pc \in {"new", "done"}

\* time passes between two bursts of requests
IdleTick(d) == Idle /\ Tick(d)

StoreDown ==
    /\ storeUp
    /\ storeUp' = FALSE
    /\ UNCHANGED <<now, clockSteps, store, expireAt, req, tasks, removed>>

StoreRecover ==
    /\ ~storeUp
    /\ storeUp' = TRUE
    /\ UNCHANGED <<now, clockSteps, store, expireAt, req, tasks, removed>>

(***************************************************************************)
(* Spec: bursts of concurrent requests on any keys, over a store that may  *)
(* become unreachable and recover; time passes between the bursts.         *)
(***************************************************************************)
Next ==
    \/ \E r \in Requests, authorization \in Authorizations, body \in Bodies :
            ChatCompletions(r, authorization, body)
    \/ \E r \in Requests : GetWindowSum(r)
    \/ \E r \in Requests : GetWindowSumError(r)
    \/ \E r \in Requests, base \in TemplateTokens : GenerateMockResponse(r, base)
    \/ \E r \in Requests : RecordUsage(r)
    \/ \E r \in Requests : RecordUsageError(r)
    \/ \E t \in BagToSet(tasks) : CleanOldSegmentsHKeys(t)
    \/ \E t \in BagToSet(tasks) : CleanOldSegmentsHDel(t)
    \/ \E t \in BagToSet(tasks) : CleanOldSegmentsError(t)
    \/ \E d \in {window_size * TicksPerSecond} : IdleTick(d)
    \/ StoreDown
    \/ StoreRecover

Spec == Init /\ [][Next]_vars

(***************************************************************************)
(* SpecClock: requests one after the other, with the clock advancing at    *)
(* any point of a request, by a tick, a segment or a window.               *)
(***************************************************************************)
\* a request sent once every earlier one has been answered
SequentialChatCompletions(r, authorization, body) ==
    Idle /\ ChatCompletions(r, authorization, body)

NextClock ==
    \/ \E r \in Requests, authorization \in Authorizations, body \in Bodies :
            SequentialChatCompletions(r, authorization, body)
    \/ \E r \in Requests : GetWindowSum(r)
    \/ \E r \in Requests, base \in TemplateTokens : GenerateMockResponse(r, base)
    \/ \E r \in Requests : RecordUsage(r)
    \/ \E t \in BagToSet(tasks) : CleanOldSegmentsHKeys(t)
    \/ \E t \in BagToSet(tasks) : CleanOldSegmentsHDel(t)
    \/ \E d \in TickSteps : Tick(d)

SpecClock == Init /\ [][NextClock]_vars

(***************************************************************************)
(* SpecSeq: one client sending requests on test-key-1 strictly one after   *)
(* the other, each with a max_tokens of its choice, within one segment.    *)
(***************************************************************************)
SeqBodies ==
    {[messages |-> HiMessages, max_tokens |-> mt] :
        mt \in {NoMaxTokens, MaxTokens(1), MaxTokens(100), MaxTokens(500), MaxTokens(1000)}}

\* the handler of an answered request is gone and its cleanup tasks have
\* run; its slot serves the next request
ForgetRequest(r) ==
    /\ req[r].pc = "done"
    /\ tasks = EmptyBag
    /\ HashTotal(store["test-key-1"]["rpm"]) < MaxSeqRequests
    /\ req' = [req EXCEPT ![r] = NewRequest]
    /\ UNCHANGED <<now, clockSteps, storeUp, store, expireAt, tasks, removed>>

InitSeq ==
    /\ InitStore
    /\ req = [r \in {1} |-> NewRequest]

NextSeq ==
    \/ \E body \in SeqBodies :
            ChatCompletions(1, [kind |-> "bearer", key |-> "test-key-1"], body)
    \/ GetWindowSum(1)
    \/ \E base \in TemplateTokens : GenerateMockResponse(1, base)
    \/ RecordUsage(1)
    \/ \E t \in BagToSet(tasks) : CleanOldSegmentsHKeys(t)
    \/ ForgetRequest(1)

SpecSeq == InitSeq /\ [][NextSeq]_vars

(***************************************************************************)
(* SpecMinimal: one client sending the minimal request (one "Hi" message,  *)
(* no max_tokens) on test-key-1 again and again, one after the other,      *)
(* within one window.                                                      *)
(***************************************************************************)
MinimalBody == [messages |-> HiMessages, max_tokens |-> NoMaxTokens]

NextMinimal ==
    \/ ChatCompletions(1, [kind |-> "bearer", key |-> "test-key-1"], MinimalBody)
    \/ GetWindowSum(1)
    \/ \E base \in TemplateTokens : GenerateMockResponse(1, base)
    \/ RecordUsage(1)
    \/ \E t \in BagToSet(tasks) : CleanOldSegmentsHKeys(t)
    \/ ForgetRequest(1)
    \/ \E d \in {1, segment_size * TicksPerSecond} : Tick(d)

SpecMinimal == InitSeq /\ [][NextMinimal]_vars

(***************************************************************************)
(* SpecHeaders: get_rate_limit_headers applied to the snapshots of          *)
(* check_rate_limit. The sums a snapshot reports are drawn from the values  *)
(* around and beyond each limit (the counters of a key can pass its limit), *)
(* and the clock is read twice, by time.time() when the snapshot is built   *)
(* and by datetime.now() when the headers are, with any delay in between.   *)
(***************************************************************************)
\* window sums around a limit, and beyond it
UsedValues(limit) == {0, limit - 1, limit, limit + 5000}

\* check_rate_limit, lines 134-145, over the sums it read
CheckRateLimitSnapshot(r, k, rpm, itpm, otpm) ==
    /\ req[r].pc = "new"
    /\ LET q == [req[r] EXCEPT !.api_key = k, !.current_rpm = rpm,
                               !.current_input_tpm = itpm, !.current_output_tpm = otpm]
       IN req' = [req EXCEPT ![r] =
                [q EXCEPT !.pc = "headers", !.info = rate_limit_info(q, otpm, now)]]
    /\ UNCHANGED <<now, clockSteps, storeUp, store, expireAt, tasks, removed>>

\* get_rate_limit_headers over the snapshot, at the clock value of its call
GetRateLimitHeaders(r) ==
    /\ req[r].pc = "headers"
    /\ LET q == req[r]
       IN req' = [req EXCEPT ![r] =
            [q EXCEPT !.pc = "done", !.headers = get_rate_limit_headers(q.info, now)]]
    /\ UNCHANGED <<now, clockSteps, storeUp, store, expireAt, tasks, removed>>

DelayTick(d) == clockSteps < MaxHeaderClockSteps /\ Advance(d)

NextHeaders ==
    \/ \E k \in Keys :
        \E rpm \in UsedValues(API_KEY_LIMITS[k].rpm) :
        \E itpm \in UsedValues(API_KEY_LIMITS[k].input_tpm) :
        \E otpm \in UsedValues(API_KEY_LIMITS[k].output_tpm) :
            CheckRateLimitSnapshot(1, k, rpm, itpm, otpm)
    \/ GetRateLimitHeaders(1)
    \/ \E d \in {1} : DelayTick(d)

SpecHeaders == InitSeq /\ [][NextHeaders]_vars

(***************************************************************************)
(* SpecWindow: requests on test-key-2 one after the other, while the clock *)
(* advances, at any point of a request, by one segment or by all the       *)
(* segments of a window but one.                                           *)
(***************************************************************************)
WindowBody == [messages |-> HiMessages, max_tokens |-> MaxTokens(100)]

WindowTickSteps ==
    {segment_size * TicksPerSecond, (segments - 1) * segment_size * TicksPerSecond}

WindowTick(d) == clockSteps < MaxWindowClockSteps /\ Advance(d)

NextWindow ==
    \/ \E r \in Requests :
            SequentialChatCompletions(r, [kind |-> "bearer", key |-> "test-key-2"], WindowBody)
    \/ \E r \in Requests : GetWindowSum(r)
    \/ \E r \in Requests, base \in TemplateTokens : GenerateMockResponse(r, base)
    \/ \E r \in Requests : RecordUsage(r)
    \/ \E t \in BagToSet(tasks) : CleanOldSegmentsHKeys(t)
    \/ \E t \in BagToSet(tasks) : CleanOldSegmentsHDel(t)
    \/ \E d \in WindowTickSteps : WindowTick(d)

SpecWindow == Init /\ [][NextWindow]_vars

(***************************************************************************)
(* SpecLive: the handlers of a node whose store stays reachable, with      *)
(* clients that may close their connection while their request is in       *)
(* flight.  The handler takes no Request object, never asks whether the    *)
(* client is still there and awaits only the store and the responder's     *)
(* sleep; the application is served by uvicorn.run without middleware,      *)
(* which on a lost connection marks the connection and lets the handler's  *)
(* coroutine run on: the disconnect changes nothing the handler reads.     *)
(* The event loop runs every coroutine that is ready, which is the         *)
(* fairness of the handler's steps.                                        *)
(***************************************************************************)
on_disconnect_cancel(q) ==
    [q EXCEPT !.disconnected = TRUE, !.disconnected_at = q.pc, !.pc = "done"]

\* what a lost connection does to the handler of the request: nothing but
\* the mark (kept with the step the handler was at, for the properties)
on_disconnect(q) == [q EXCEPT !.disconnected = TRUE, !.disconnected_at = q.pc]

ClientDisconnect(r) ==
    /\ req[r].pc \notin {"new", "done"}
    /\ ~req[r].disconnected
    /\ req' = [req EXCEPT ![r] = on_disconnect(req[r])]
    /\ UNCHANGED <<now, clockSteps, storeUp, store, expireAt, tasks, removed>>

\* one request at a node, as in InitSeq
LiveRequests == {1}

LiveBodies ==
    { [messages |-> HiMessages, max_tokens |-> MaxTokens(100)],
      [messages |-> LongMessages, max_tokens |-> MaxTokens(100)] }

NextLive ==
    \/ \E r \in LiveRequests, body \in LiveBodies :
            ChatCompletions(r, [kind |-> "bearer", key |-> "test-key-1"], body)
    \/ \E r \in LiveRequests : GetWindowSum(r)
    \/ \E r \in LiveRequests, base \in TemplateTokens : GenerateMockResponse(r, base)
    \/ \E r \in LiveRequests : RecordUsage(r)
    \/ \E r \in LiveRequests : ClientDisconnect(r)
    \/ \E t \in BagToSet(tasks) : CleanOldSegmentsHKeys(t)
    \/ \E d \in {window_size * TicksPerSecond} : Tick(d)

FairLive ==
    \A r \in LiveRequests :
        /\ WF_vars(GetWindowSum(r))
        /\ WF_vars(\E base \in TemplateTokens : GenerateMockResponse(r, base))
        /\ WF_vars(RecordUsage(r))

SpecLive == InitSeq /\ [][NextLive]_vars /\ FairLive

(***************************************************************************)
(* SpecTrailing: requests on test-key-2 one after the other, while the     *)
(* clock advances by a tick or by a window less a tick, so that a Record   *)
(* made just after the start of a segment is read just less than a window *)
(* later.                                                                  *)
(***************************************************************************)
TrailingTickSteps == {1, window_size * TicksPerSecond - 1}

TrailingTick(d) == clockSteps < MaxTrailingClockSteps /\ Advance(d)

NextTrailing ==
    \/ \E r \in Requests :
            SequentialChatCompletions(r, [kind |-> "bearer", key |-> "test-key-2"], WindowBody)
    \/ \E r \in Requests : GetWindowSum(r)
    \/ \E r \in Requests, base \in TemplateTokens : GenerateMockResponse(r, base)
    \/ \E r \in Requests : RecordUsage(r)
    \/ \E t \in BagToSet(tasks) : CleanOldSegmentsHKeys(t)
    \/ \E t \in BagToSet(tasks) : CleanOldSegmentsHDel(t)
    \/ \E d \in TrailingTickSteps : TrailingTick(d)

SpecTrailing == Init /\ [][NextTrailing]_vars

(***************************************************************************)
(* SpecSum: _get_window_sum on every content of a hash.  The three hashes  *)
(* of test-key-2 start with any choice of fields around the two ends of    *)
(* the window, inside and outside it, or with none (the key is missing),   *)
(* and one request is checked, served and recorded.                        *)
(***************************************************************************)
SumFieldIndices ==
    {SumSegment - segments - 1, SumSegment - segments, SumSegment - segments + 1,
     SumSegment - 1, SumSegment, SumSegment + 1}

SumFieldValues == {1, 3}

SumHashes == UNION {[fs -> SumFieldValues] : fs \in SUBSET SumFieldIndices}

InitSum ==
    /\ now = SumSegment * segment_size * TicksPerSecond
    /\ clockSteps = 0
    /\ storeUp = TRUE
    /\ \E h \in SumHashes :
        /\ store = [EmptyStore EXCEPT !["test-key-2"] = [m \in MetricSet |-> h]]
        /\ expireAt = [k \in Keys |-> [m \in MetricSet |->
                IF k = "test-key-2" /\ h # NoHash
                THEN now + window_size * 2 * TicksPerSecond ELSE NoExpiry]]
    /\ tasks = EmptyBag
    /\ removed = [k \in Keys |-> [m \in MetricSet |-> 0]]
    /\ req = [r \in {1} |-> NewRequest]

NextSum ==
    \/ ChatCompletions(1, [kind |-> "bearer", key |-> "test-key-2"], WindowBody)
    \/ GetWindowSum(1)
    \/ \E base \in TemplateTokens : GenerateMockResponse(1, base)
    \/ RecordUsage(1)
    \/ \E t \in BagToSet(tasks) : CleanOldSegmentsHKeys(t)
    \/ \E t \in BagToSet(tasks) : CleanOldSegmentsHDel(t)

SpecSum == InitSum /\ [][NextSum]_vars

(***************************************************************************)
(* SpecBurst: test-key-2 (itpm = 10000), empty counters, and five          *)
(* concurrent requests of 3000 estimated input tokens each, spread over    *)
(* two nodes, within one segment.                                          *)
(***************************************************************************)
BurstRequests == 1..5
BurstBody == [messages |-> Messages3000, max_tokens |-> NoMaxTokens]
\* the stub answers with its shortest template: output tokens stay far from
\* the otpm limit of the key whichever template is drawn
BurstTemplateTokens == {t \in TemplateTokens : \A u \in TemplateTokens : t <= u}

InitBurst ==
    /\ InitStore
    /\ req = [r \in BurstRequests |-> NewRequest]

\* Steps that cannot decide an admission in this scenario are run as soon as
\* they are enabled, since they commute with the steps of the other handlers:
\*   - a cleanup task only reads the field names of a hash and finds no field
\*     to delete;
\*   - the rpm and otpm reads of a Check see at most 5 of 2000 requests and
\*     at most 5 * 12 + 1000 of 10000 output tokens.
\* The itpm read, the stub's answer and the Record interleave freely.
Urgent(r) == req[r].pc \in {"sum_rpm", "sum_output_tpm"}
Quiescent == tasks = EmptyBag
Settled == Quiescent /\ \A r \in DOMAIN req : ~Urgent(r)

NextBurst ==
    \/ \E r \in BurstRequests :
            /\ Settled
            /\ ChatCompletions(r, [kind |-> "bearer", key |-> "test-key-2"], BurstBody)
    \/ \E r \in BurstRequests :
            /\ Quiescent
            /\ Settled \/ Urgent(r)
            /\ GetWindowSum(r)
    \/ \E r \in BurstRequests, base \in BurstTemplateTokens :
            Settled /\ GenerateMockResponse(r, base)
    \/ \E r \in BurstRequests : Settled /\ RecordUsage(r)
    \/ \E t \in BagToSet(tasks) : CleanOldSegmentsHKeys(t)

SpecBurst == InitBurst /\ [][NextBurst]_vars

(***************************************************************************)
(* SpecCore: the limiter core driven to its rpm limit.  With the keys of   *)
(* the registry a token limit is always reached long before the rpm limit  *)
(* (every Record adds at least 12 output tokens), so the protocol of the   *)
(* handler, check_rate_limit, the responder, record_usage, is run here for *)
(* an api key that is not in the registry, to which get_api_key_limits     *)
(* gives DEFAULT_RATE_LIMITS (rpm 100).  MaxCoreRequests callers are in    *)
(* flight at once, each starting its next request when the last is         *)
(* answered.  The token reads of a Check and the cleanup tasks are run as  *)
(* soon as they are enabled: the token sums stay far from their limits and *)
(* the tasks find nothing to delete, so these steps commute with the       *)
(* others and cannot decide an admission.                                  *)
(***************************************************************************)
CoreKey == "unregistered-key"
CoreRequests == 1..MaxCoreRequests
CoreBody == [messages |-> HiMessages, max_tokens |-> MaxTokens(1)]

InitCore ==
    /\ now = 0
    /\ clockSteps = 0
    /\ storeUp = TRUE
    /\ store = [k \in {CoreKey} |-> [m \in MetricSet |-> NoHash]]
    /\ expireAt = [k \in {CoreKey} |-> [m \in MetricSet |-> NoExpiry]]
    /\ tasks = EmptyBag
    /\ removed = [k \in {CoreKey} |-> [m \in MetricSet |-> 0]]
    /\ req = [r \in CoreRequests |-> NewRequest]

\* a call of check_rate_limit(api_key, request), up to its first await
CheckRateLimit(r, api_key, body) ==
    /\ req[r].pc = "new"
    /\ req' = [req EXCEPT ![r] = begin_check(req[r], r, api_key, body, now)]
    /\ UNCHANGED <<now, clockSteps, storeUp, store, expireAt, tasks, removed>>

\* the caller has its answer; its next request takes the slot
CoreForget(r) ==
    /\ req[r].pc = "done"
    /\ req' = [req EXCEPT ![r] = NewRequest]
    /\ UNCHANGED <<now, clockSteps, storeUp, store, expireAt, tasks, removed>>

CoreUrgent(r) == req[r].pc \in {"sum_input_tpm", "sum_output_tpm"}
CoreSettled == Quiescent /\ \A r \in DOMAIN req : ~CoreUrgent(r)

NextCore ==
    \/ \E r \in CoreRequests : CoreSettled /\ CheckRateLimit(r, CoreKey, CoreBody)
    \/ \E r \in CoreRequests :
            /\ Quiescent
            /\ CoreSettled \/ CoreUrgent(r)
            /\ GetWindowSum(r)
    \/ \E r \in CoreRequests, base \in BurstTemplateTokens :
            CoreSettled /\ GenerateMockResponse(r, base)
    \/ \E r \in CoreRequests : CoreSettled /\ RecordUsage(r)
    \/ \E t \in BagToSet(tasks) : CleanOldSegmentsHKeys(t)
    \/ \E r \in CoreRequests : CoreSettled /\ CoreForget(r)

SpecCore == InitCore /\ [][NextCore]_vars

(***************************************************************************)
(* SpecStale: requests on test-key-2 while the clock advances a window at  *)
(* a time.  The handlers run during the first MaxArrivalClockSteps         *)
(* advances; the clock then goes on for three more windows, longer than    *)
(* the expiry of the last Record.  The cleanup tasks and the clock (with   *)
(* the store's expiry) eventually run.                                     *)
(***************************************************************************)
StaleClockSteps == MaxArrivalClockSteps + 3

Arriving == clockSteps <= MaxArrivalClockSteps

StaleTick(d) == clockSteps < StaleClockSteps /\ Advance(d)

NextStale ==
    \/ \E r \in Requests :
            /\ Arriving
            /\ SequentialChatCompletions(r, [kind |-> "bearer", key |-> "test-key-2"], WindowBody)
    \/ \E r \in Requests : Arriving /\ GetWindowSum(r)
    \/ \E r \in Requests, base \in BurstTemplateTokens :
            Arriving /\ GenerateMockResponse(r, base)
    \/ \E r \in Requests : Arriving /\ RecordUsage(r)
    \/ \E t \in BagToSet(tasks) : CleanOldSegmentsHKeys(t)
    \/ \E t \in BagToSet(tasks) : CleanOldSegmentsHDel(t)
    \/ \E d \in {window_size * TicksPerSecond} : StaleTick(d)

FairStale ==
    /\ WF_vars(\E t \in BagToSet(tasks) : CleanOldSegmentsHKeys(t))
    /\ WF_vars(\E t \in BagToSet(tasks) : CleanOldSegmentsHDel(t))
    /\ WF_vars(\E d \in {window_size * TicksPerSecond} : StaleTick(d))

SpecStale == Init /\ [][NextStale]_vars /\ FairStale

(***************************************************************************)
(* Quantities the properties speak of.                                     *)
(***************************************************************************)
CheckPcs == {"sum_rpm", "sum_input_tpm", "sum_output_tpm"}

\* what the Record of request q adds to metric m
Amount(q, m) ==
    CASE m = "rpm" -> 1
      [] m = "input_tpm" -> q.prompt_tokens
      [] OTHER -> q.completion_tokens

RECURSIVE IssuedBy(_, _, _)
\* the sum of the increments of metric m the store has run for requests rs of key k
IssuedBy(rs, k, m) ==
    IF rs = {} THEN 0
    ELSE LET r == CHOOSE x \in rs : TRUE
         IN (IF req[r].api_key = k /\ m \in req[r].applied THEN Amount(req[r], m) ELSE 0)
            + IssuedBy(rs \ {r}, k, m)

RECURSIVE IssuedIn(_, _, _, _, _)
\* the same, for the Records made in the segments lo..hi only
IssuedIn(rs, k, m, lo, hi) ==
    IF rs = {} THEN 0
    ELSE LET r == CHOOSE x \in rs : TRUE
         IN (IF /\ req[r].api_key = k /\ m \in req[r].applied
                /\ req[r].current_segment >= lo /\ req[r].current_segment <= hi
             THEN Amount(req[r], m) ELSE 0)
            + IssuedIn(rs \ {r}, k, m, lo, hi)

RECURSIVE RecordedSince(_, _, _, _)
\* the same, for the Records the store ran after clock value t0: with
\* t0 = now - window_size, the true trailing window (t0, now]
RecordedSince(rs, k, m, t0) ==
    IF rs = {} THEN 0
    ELSE LET r == CHOOSE x \in rs : TRUE
         IN (IF /\ req[r].api_key = k /\ m \in req[r].applied /\ req[r].recorded_at > t0
             THEN Amount(req[r], m) ELSE 0)
            + RecordedSince(rs \ {r}, k, m, t0)

\* the window sum of metric m of key k as a reader would see it now
WindowSumNow(k, m) == get_window_sum(store[k][m], get_window_start(now))

\* the requests Check admitted, and those whose Record the store ran
Admitted == {r \in DOMAIN req : req[r].checked /\ req[r].allowed}
Recorded == {r \in DOMAIN req : req[r].recorded}

\* the input estimate of a request of the burst
BurstEstimate == estimate_request_tokens(Messages3000)

(***************************************************************************)
(* Properties.                                                             *)
(***************************************************************************)

\* C1: Check admits a request if and only if, on the three window sums it
\* read, used_rpm + 1 <= rpm limit, used_itpm + input estimate <= itpm limit
\* and used_otpm + output reservation <= otpm limit; the snapshot reports the
\* sums that were read.
C1_AdmitIffWithinLimits ==
    \A r \in Requests :
        req[r].checked =>
            LET q == req[r]
                limits == API_KEY_LIMITS[q.api_key]
            IN /\ q.allowed <=>
                    /\ q.current_rpm + 1 <= limits.rpm
                    /\ q.current_input_tpm + q.input_tokens <= limits.input_tpm
                    /\ q.current_output_tpm + q.output_tokens <= limits.output_tpm
               /\ q.info.rpm_used = q.current_rpm
               /\ q.info.input_tpm_used = q.current_input_tpm
               /\ q.info.output_tpm_used = q.current_output_tpm

\* an admitted request at the exact limit of a metric, and a rejected one
C1_Witness ==
    /\ \E r \in Requests :
            /\ req[r].checked /\ req[r].allowed
            /\ req[r].current_output_tpm + req[r].output_tokens
                    = API_KEY_LIMITS[req[r].api_key].output_tpm
    /\ \E r \in Requests : req[r].checked /\ ~req[r].allowed

\* C2: with the requests of one api key issued strictly one after the other,
\* the window sums of the key never exceed its limits: used_rpm <= rpm limit,
\* used_itpm <= itpm limit and used_otpm <= otpm limit at every point.
C2_SequentialWithinLimits ==
    \A k \in Keys : \A m \in MetricSet :
        WindowSumNow(k, m) <= API_KEY_LIMITS[k][m]

\* C3: a Record run in the segment it was computed for increases the window
\* sums of its key by exactly 1, prompt_tokens and completion_tokens, touches
\* only that segment's field of the three hashes, and leaves the counters of
\* every other key as they were.
C3_RecordIncreasesSumsExactly ==
    [][\A r \in DOMAIN req :
            (/\ req[r].pc = "record"
             /\ req'[r].recorded
             /\ req[r].current_segment = get_current_segment(now))
            => LET k == req[r].api_key
                   seg == req[r].current_segment
               IN /\ \A m \in MetricSet :
                        /\ WindowSumNow(k, m)' = WindowSumNow(k, m) + Amount(req[r], m)
                        /\ DOMAIN store'[k][m] = DOMAIN store[k][m] \cup {seg}
                        /\ \A f \in DOMAIN store[k][m] \ {seg} :
                                store'[k][m][f] = store[k][m][f]
                  /\ \A k2 \in Keys \ {k} :
                        store'[k2] = store[k2] /\ expireAt'[k2] = expireAt[k2]]_vars

\* a Record run in its segment on top of counts of an earlier segment that the
\* window still covers
C3_Witness ==
    \E r \in DOMAIN req :
        /\ req[r].recorded
        /\ req[r].current_segment = get_current_segment(now)
        /\ req[r].current_segment > 0
        /\ WindowSumNow(req[r].api_key, "rpm") = 2
        /\ HGet(store[req[r].api_key]["rpm"], req[r].current_segment) = 1

\* C4: no increment is lost: whatever the interleaving of the Records of the
\* nodes, each counter hash holds (up to what cleanup and expiry removed) the
\* sum of the increments the store ran; two concurrent Record(k, a, b) add
\* 2, 2a and 2b.
C4_NoLostIncrement ==
    \A k \in Keys : \A m \in MetricSet :
        HashTotal(store[k][m]) + removed[k][m] = IssuedBy(Requests, k, m)

\* two Records of one key from two nodes, the second run by the store while the
\* first was still in flight
C4_Witness ==
    \E r1 \in Requests : \E r2 \in Requests \ {r1} :
        /\ req[r1].recorded /\ req[r2].recorded
        /\ req[r1].api_key = req[r2].api_key
        /\ req[r1].node # req[r2].node
        /\ req[r1].overlapped
        /\ WindowSumNow(req[r1].api_key, "rpm") = 2

\* C5: Check is read-only: no step of a Check, admitting, rejecting or failing,
\* changes a counter hash, a field or a key's expiry.
C5_CheckIsReadOnly ==
    [][\A r \in Requests :
            (req[r].pc \in CheckPcs /\ req'[r] # req[r])
                => (store' = store /\ expireAt' = expireAt)]_vars

\* a Check that admitted, then a Check that rejected over counters that are not
\* empty
C5_Witness ==
    /\ \E r \in Requests : req[r].checked /\ req[r].allowed
    /\ \E r \in Requests : req[r].checked /\ ~req[r].allowed /\ req[r].current_rpm > 0

\* C6 as stated: of the five concurrent requests at most 4 are admitted.
C6_NeverAllFiveAdmitted == Cardinality(Admitted) <= 4

\* C6: a request of the burst is admitted exactly when the itpm read of its
\* Check saw the Records of at most two of the others, that read being the
\* sum of the Records completed before it; so all five are admitted when
\* every itpm read comes before the third Record, and at most 5 ever are.
C6_AdmittedIffReadBeforeThirdRecord ==
    /\ [](\A r \in DOMAIN req :
            req[r].checked =>
                (req[r].allowed <=> req[r].current_input_tpm <= 2 * BurstEstimate))
    /\ [][\A r \in DOMAIN req :
            (req[r].pc = "sum_input_tpm" /\ req'[r].pc # "sum_input_tpm")
                => req'[r].current_input_tpm = Cardinality(Recorded) * BurstEstimate]_vars

\* all five admitted and recorded: 15000 input tokens on a limit of 10000
C6_Witness ==
    /\ Cardinality(Recorded) = 5
    /\ WindowSumNow("test-key-2", "input_tpm") = 5 * BurstEstimate
    /\ API_KEY_LIMITS["test-key-2"].input_tpm = 10000

\* C7: once the five concurrent requests are all answered, at least 3 of them
\* were admitted; a request is rejected only after three Records completed.
C7_AtLeastThreeAdmitted ==
    /\ (\A r \in DOMAIN req : req[r].pc = "done") => Cardinality(Admitted) >= 3
    /\ (\E r \in DOMAIN req : req[r].checked /\ ~req[r].allowed)
            => Cardinality(Recorded) >= 3

\* all five answered, exactly three of them admitted
C7_Witness ==
    /\ \A r \in DOMAIN req : req[r].pc = "done"
    /\ Cardinality(DOMAIN req) = 5
    /\ Cardinality(Admitted) = 3

\* C8: a request Check rejects is answered 429 with the rate-limit headers, the
\* responder is not invoked and no Record is made: the rejecting step leaves the
\* store as it was and spawns nothing, and the request takes no further step.
C8_RejectedNeverRecords ==
    /\ [](\A r \in Requests :
            (req[r].checked /\ ~req[r].allowed) =>
                /\ req[r].pc = "done"
                /\ req[r].status = 429
                /\ req[r].headers.present
                /\ ~req[r].served
                /\ ~req[r].recorded
                /\ req[r].applied = {})
    /\ [][\A r \in Requests :
            (req'[r].checked /\ ~req'[r].allowed /\ req'[r] # req[r])
                => (store' = store /\ expireAt' = expireAt /\ tasks' = tasks)]_vars

\* a rejected request, over counters that are not empty
C8_Witness ==
    \E r \in Requests :
        /\ req[r].checked /\ ~req[r].allowed /\ req[r].status = 429
        /\ store[req[r].api_key]["rpm"] # NoHash

\* C9: the limiter fails closed: a request one of whose window-sum reads failed
\* is not admitted, the responder is not invoked, no Record is written and the
\* answer is not a 200.
C9_FailClosed ==
    \A r \in Requests :
        req[r].read_failed =>
            /\ req[r].pc = "done"
            /\ ~req[r].allowed
            /\ ~req[r].served
            /\ ~req[r].recorded
            /\ req[r].applied = {}
            /\ req[r].status # 200

\* a read that failed after an earlier read of the same Check succeeded
C9_Witness ==
    \E r \in Requests : req[r].read_failed /\ req[r].current_rpm > 0

\* C10: Record is all-or-nothing: whether the store is unreachable or fails
\* while the pipeline is sent, the increments of a request's Record are run on
\* all three counters or on none.
C10_RecordAllOrNothing ==
    \A r \in Requests : req[r].applied \in {{}, MetricSet}

\* the store is back after a Record failed with nothing written, and after a
\* Record whose pipeline ran but whose reply was lost
C10_Witness ==
    /\ storeUp
    /\ \E r \in Requests : req[r].record_failed /\ req[r].applied = {}
    /\ \E r \in Requests : req[r].record_failed /\ req[r].applied = MetricSet

\* C11: a request whose Authorization header is missing or malformed, or whose
\* key is not in the registry, is answered 401 in its first step, without a
\* store read or write before or after; every request that goes on to Check
\* carries a key of the registry and is judged by that key's own limits, never
\* by the default limits.
C11_UnauthenticatedNeverReachesStore ==
    /\ [](\A r \in DOMAIN req :
            /\ req[r].status = 401 =>
                    /\ req[r].pc = "done"
                    /\ req[r].api_key = ""
                    /\ ~req[r].checked /\ ~req[r].headers.present
                    /\ ~req[r].served /\ ~req[r].recorded /\ ~req[r].read_failed
                    /\ req[r].applied = {}
            /\ (req[r].pc # "new" /\ req[r].status # 401) =>
                    /\ req[r].api_key \in DOMAIN API_KEY_LIMITS
                    /\ req[r].checked =>
                            /\ req[r].info.rpm_limit = API_KEY_LIMITS[req[r].api_key].rpm
                            /\ req[r].info.input_tpm_limit = API_KEY_LIMITS[req[r].api_key].input_tpm
                            /\ req[r].info.output_tpm_limit = API_KEY_LIMITS[req[r].api_key].output_tpm)
    /\ [][\A r \in DOMAIN req : \A a \in Authorizations : \A b \in Bodies :
            (/\ ChatCompletions(r, a, b)
             /\ a.kind # "bearer" \/ a.key \notin DOMAIN API_KEY_LIMITS)
            => /\ req'[r].status = 401 /\ req'[r].pc = "done"
               /\ store' = store /\ expireAt' = expireAt /\ tasks' = tasks]_vars

\* a 401 sent while the counters of a key are not empty, and a 401-free
\* request of that run that reached the store
C11_Witness ==
    /\ \E r \in DOMAIN req : req[r].status = 401
    /\ \E r \in DOMAIN req : req[r].recorded /\ store[req[r].api_key]["rpm"] # NoHash

\* C12 as stated: the 200 response to a request admitted on test-key-1 over
\* empty counters carries X-RateLimit-Remaining-Requests = 9999.
C12_FirstResponseShows9999 ==
    \A r \in DOMAIN req :
        (req[r].status = 200 /\ req[r].api_key = "test-key-1" /\ req[r].current_rpm = 0)
            => req[r].headers.remaining_requests = 9999

\* C12: the headers of a 200 response are those of the snapshot Check took
\* before the request was recorded: Remaining-Requests is the rpm limit minus
\* the requests Check counted, the request itself not included, which is
\* 10000 for a request admitted on test-key-1 over empty counters.
C12_ResponseShowsBudgetBeforeRequest ==
    \A r \in DOMAIN req :
        req[r].status = 200 =>
            /\ req[r].headers.present
            /\ req[r].headers.remaining_requests
                    = Max(0, API_KEY_LIMITS[req[r].api_key].rpm - req[r].current_rpm)
            /\ (req[r].api_key = "test-key-1" /\ req[r].current_rpm = 0)
                    => req[r].headers.remaining_requests = 10000

\* the first request of test-key-1 answered 200 with Remaining-Requests =
\* 10000 while the store counts it
C12_Witness ==
    \E r \in DOMAIN req :
        /\ req[r].status = 200 /\ req[r].api_key = "test-key-1"
        /\ req[r].current_rpm = 0
        /\ req[r].headers.remaining_requests = 10000
        /\ WindowSumNow("test-key-1", "rpm") = 1

\* C13 as stated: a request of 1500 or more estimated input tokens on
\* test-key-1 (itpm limit 1000) over empty counters is rejected with 429 and
\* X-RateLimit-Remaining-Tokens-Input = 0.
C13_RejectedShowsZeroInput ==
    \A r \in DOMAIN req :
        (/\ req[r].checked /\ req[r].api_key = "test-key-1"
         /\ req[r].input_tokens >= 1500
         /\ req[r].current_rpm = 0 /\ req[r].current_input_tpm = 0
         /\ req[r].current_output_tpm = 0)
        => req[r].status = 429 /\ req[r].headers.remaining_tokens_input = 0

\* C13: such a request is rejected with 429 on the itpm test alone (the rpm
\* test before it passes), nothing is recorded for it, and its headers show
\* the budget of the snapshot, in which nothing is used yet:
\* X-RateLimit-Remaining-Tokens-Input = 1000.
C13_RejectedOnInputShowsWholeBudget ==
    \A r \in DOMAIN req :
        (/\ req[r].checked /\ req[r].api_key = "test-key-1"
         /\ req[r].input_tokens >= 1500
         /\ req[r].current_rpm = 0 /\ req[r].current_input_tpm = 0
         /\ req[r].current_output_tpm = 0)
        => /\ ~req[r].allowed /\ req[r].status = 429 /\ req[r].pc = "done"
           /\ req[r].current_rpm + 1 <= API_KEY_LIMITS["test-key-1"].rpm
           /\ req[r].current_input_tpm + req[r].input_tokens
                    > API_KEY_LIMITS["test-key-1"].input_tpm
           /\ req[r].headers.present
           /\ req[r].headers.remaining_tokens_input = 1000
           /\ ~req[r].served /\ ~req[r].recorded /\ req[r].applied = {}

\* the request of 1500 content tokens rejected over the empty counters of
\* test-key-1
C13_Witness ==
    \E r \in DOMAIN req :
        /\ req[r].status = 429 /\ req[r].api_key = "test-key-1"
        /\ req[r].input_tokens >= 1500
        /\ req[r].current_input_tpm = 0 /\ req[r].current_rpm = 0
        /\ store["test-key-1"]["input_tpm"] = NoHash
        /\ req[r].headers.remaining_tokens_input = 1000

C15_RemainingIsClampedDifference ==
    \A r \in DOMAIN req :
        req[r].headers.present =>
            LET h == req[r].headers
                i == req[r].info
                limits == API_KEY_LIMITS[req[r].api_key]
                remaining(limit, used) == IF used >= limit THEN 0 ELSE limit - used
            IN /\ h.limit_requests = limits.rpm
               /\ h.limit_tokens_input = limits.input_tpm
               /\ h.limit_tokens_output = limits.output_tpm
               /\ h.remaining_requests = remaining(limits.rpm, i.rpm_used)
               /\ h.remaining_tokens_input = remaining(limits.input_tpm, i.input_tpm_used)
               /\ h.remaining_tokens_output = remaining(limits.output_tpm, i.output_tpm_used)
               /\ h.remaining_requests >= 0
               /\ h.remaining_tokens_input >= 0
               /\ h.remaining_tokens_output >= 0

\* headers of a snapshot whose input tokens are beyond the limit and whose
\* requests are below it
C15_Witness ==
    \E r \in DOMAIN req :
        /\ req[r].headers.present
        /\ req[r].info.input_tpm_used > req[r].info.input_tpm_limit
        /\ req[r].headers.remaining_tokens_input = 0
        /\ req[r].info.rpm_used = req[r].info.rpm_limit - 1
        /\ req[r].headers.remaining_requests = 1

\* C16: Retry-After is an integer of 0..window_size, whatever time passes
\* between the snapshot and the construction of the headers.
C16_RetryAfterInRange ==
    \A r \in DOMAIN req :
        req[r].headers.present => req[r].headers.retry_after \in 0..window_size

\* C17: Retry-After is 0 exactly when the headers are built at or after the
\* snapshot's window_end; before it, Retry-After is the seconds left to
\* window_end rounded up, hence at least 1.
C17_RetryAfterZeroIffWindowOver ==
    [][\A r \in DOMAIN req :
            (req[r].pc = "headers" /\ req'[r].pc = "done") =>
                LET left == req[r].info.window_end * TicksPerSecond - now
                    retry_after == req'[r].headers.retry_after
                IN /\ retry_after = 0 <=> left <= 0
                   /\ left > 0 =>
                        /\ retry_after = (left + TicksPerSecond - 1) \div TicksPerSecond
                        /\ retry_after >= 1]_vars

\* C18: a Record made in segment S counts in the window sums while the
\* current segment is one of S .. S + segments - 1 and no longer once it is
\* S + segments or later: at every moment the window sum of a counter is the
\* sum of the Records made in the last `segments` segments, and the rpm read
\* of a Check returns the Records made in the `segments` segments of its field
\* list (all of them, unless the read comes so long after the field list was
\* computed that the hash has expired, two windows after its last write), so
\* a Check made a window or more after the only Record reads 0.
C18_RecordCountsForOneWindow ==
    /\ [](\A k \in Keys : \A m \in MetricSet :
            WindowSumNow(k, m)
                = IssuedIn(DOMAIN req, k, m, get_current_segment(now) - segments + 1,
                           get_current_segment(now)))
    /\ [][\A r \in DOMAIN req :
            (req[r].pc = "sum_rpm" /\ req'[r].pc = "sum_input_tpm")
                => LET lo == req[r].start_segment
                       hi == lo + segments - 1
                       alive == get_current_segment(now) - 2 * segments + 1
                   IN /\ req'[r].current_rpm <= IssuedIn(DOMAIN req, req[r].api_key, "rpm", lo, hi)
                      /\ req'[r].current_rpm
                            >= IssuedIn(DOMAIN req, req[r].api_key, "rpm", Max(lo, alive), hi)]_vars

\* the second request's Check reads used_rpm = 0 while the hash still holds
\* the first request's Record, made `segments` segments earlier
C18_Witness ==
    \E r1 \in DOMAIN req : \E r2 \in DOMAIN req \ {r1} :
        /\ req[r1].recorded /\ req[r2].checked
        /\ req[r2].api_key = req[r1].api_key
        /\ req[r2].current_rpm = 0
        /\ req[r2].info.window_start = (req[r1].current_segment + 1) * segment_size
        /\ HGet(store[req[r1].api_key]["rpm"], req[r1].current_segment) = 1

\* the handler's steps in the order the code takes them: a step leads to the
\* next one or, on a 401, a 429 or a store error, straight to the response
ProtocolSteps ==
    { <<"new", "sum_rpm">>, <<"sum_rpm", "sum_input_tpm">>,
      <<"sum_input_tpm", "sum_output_tpm">>, <<"sum_output_tpm", "serving">>,
      <<"serving", "record">>, <<"record", "done">> }
        \cup { <<pc, "done">> : pc \in {"new", "sum_rpm", "sum_input_tpm", "sum_output_tpm"} }

\* C19: within one request the steps follow NEW -> AUTHENTICATED -> CHECKED ->
\* (SERVING -> RECORDED -> RESPONDED | REJECTED(429) -> RESPONDED): a 200 or a
\* 429 is sent only after the Check has completed, a 429 only on a rejection
\* and without serving or recording, and a 200 only after the responder has run
\* and the store has acknowledged all of the request's Record; the only
\* responses outside this order are the 401 of a request that never
\* authenticated and the 500 of a store failure.
C19_ProtocolOrder ==
    /\ [](\A r \in DOMAIN req :
            LET q == req[r] IN
            /\ q.status # 0 <=> q.pc = "done"
            /\ q.status \in {0, 200, 401, 429, 500}
            /\ q.status = 200 =>
                    /\ q.checked /\ q.allowed /\ q.served
                    /\ q.recorded /\ q.applied = MetricSet
            /\ q.status = 429 =>
                    /\ q.checked /\ ~q.allowed /\ ~q.served
                    /\ ~q.recorded /\ q.applied = {}
            /\ q.status = 401 => q.api_key = "" /\ ~q.checked /\ ~q.served
            /\ q.status = 500 => q.read_failed \/ q.record_failed
            /\ q.served => q.checked /\ q.allowed
            /\ q.applied # {} => q.served)
    /\ [][\A r \in DOMAIN req :
            req'[r].pc # req[r].pc => <<req[r].pc, req'[r].pc>> \in ProtocolSteps]_vars

\* one request was answered 200 after its Record was acknowledged, another was
\* rejected with 429 after its Check, and nothing was recorded for it
C19_Witness ==
    \E r1 \in DOMAIN req : \E r2 \in DOMAIN req \ {r1} :
        /\ req[r1].status = 200 /\ req[r1].recorded /\ req[r1].served
        /\ req[r2].status = 429 /\ req[r2].checked /\ req[r2].applied = {}

\* C20: every request the Check admitted is eventually charged, also when its
\* client disconnects after the Check and before the Record: the responder
\* runs, the Record is issued and the three counters are incremented for it.
C20_AdmittedEventuallyCharged ==
    \A r \in LiveRequests :
        /\ (req[r].checked /\ req[r].allowed)
                ~> (req[r].served /\ req[r].recorded /\ req[r].applied = MetricSet)
        /\ (req[r].disconnected /\ req[r].checked /\ req[r].allowed)
                ~> (req[r].disconnected /\ req[r].recorded /\ req[r].applied = MetricSet)

\* a request whose client went away while the responder was running, or just
\* before the Record, has been recorded
C20_Witness ==
    \E r \in DOMAIN req :
        /\ req[r].disconnected /\ req[r].disconnected_at \in {"serving", "record"}
        /\ req[r].allowed /\ req[r].recorded /\ req[r].applied = MetricSet
        /\ HashTotal(store[req[r].api_key]["rpm"]) >= 1

\* C21: a request that met a store failure is answered 503 (after one retry),
\* never any other status.
C21_StoreFailureAnswered503 ==
    \A r \in DOMAIN req :
        (req[r].read_failed \/ req[r].record_failed) => req[r].status = 503

\* C22 (as stated): the window sum never undercounts the true trailing window:
\* it is at least the sum of the increments recorded in (now - window_size, now].
C22_NeverUndercounts ==
    \A k \in Keys : \A m \in MetricSet :
        WindowSumNow(k, m)
            >= RecordedSince(DOMAIN req, k, m, now - window_size * TicksPerSecond)

\* C22 (amended): the segments summed run from current - segments + 1 to the
\* current one, which reach back less than a window: the window sum is the sum
\* of the Records made in these segments, all of which were recorded in
\* (now - window_size, now], so it never overcounts the true trailing window;
\* what it misses of it are the Records of older segments, and a Record written
\* in the segment it was computed for is missed only if that segment is
\* current - segments, the one containing now - window_size.
C22_NeverOvercounts ==
    LET cur == get_current_segment(now)
        since == now - window_size * TicksPerSecond
    IN /\ \A k \in Keys : \A m \in MetricSet :
            /\ WindowSumNow(k, m) = IssuedIn(DOMAIN req, k, m, cur - segments + 1, cur)
            /\ WindowSumNow(k, m) <= RecordedSince(DOMAIN req, k, m, since)
       /\ \A r \in DOMAIN req :
            (/\ req[r].applied # {}
             /\ req[r].recorded_at > since
             /\ get_current_segment(req[r].recorded_at) = req[r].current_segment)
                => req[r].current_segment >= cur - segments

\* a Record made less than a window ago, in the segment containing
\* now - window_size, is still in the hash and is not counted: the rpm window
\* sum is 0
C22_Witness ==
    \E r \in DOMAIN req :
        /\ req[r].recorded
        /\ req[r].recorded_at > now - window_size * TicksPerSecond
        /\ req[r].current_segment = get_current_segment(now) - segments
        /\ HGet(store[req[r].api_key]["rpm"], req[r].current_segment) = 1
        /\ WindowSumNow(req[r].api_key, "rpm") = 0

\* the metric a handler at step pc reads next
MetricRead(pc) ==
    CASE pc = "sum_rpm" -> "rpm"
      [] pc = "sum_input_tpm" -> "input_tpm"
      [] OTHER -> "output_tpm"

\* what a read of metric m left in the handler's state
SumRead(q, m) ==
    CASE m = "rpm" -> q.current_rpm
      [] m = "input_tpm" -> q.current_input_tpm
      [] OTHER -> q.current_output_tpm

\* C23: for every content of the hash, window_sum returns exactly the sum of
\* the values of the fields the hash holds with an index in
\* current - segments + 1 .. current (`segments` indices); a field that is
\* missing, or a key that is missing, counts 0, and the fields outside the
\* range are ignored.
C23_WindowSumIsSumOfRange ==
    [][\A r \in DOMAIN req :
        (req[r].pc \in {"sum_rpm", "sum_input_tpm", "sum_output_tpm"} /\ req'[r].pc # req[r].pc)
            => LET m == MetricRead(req[r].pc)
                   h == store[req[r].api_key][m]
                   cur == get_current_segment(now)
                   range == (cur - segments + 1)..cur
               IN /\ Cardinality(range) = segments
                  /\ SumRead(req'[r], m) = SumFields(h, DOMAIN h \cap range)]_vars

\* a Check has read a hash that holds fields inside the range and outside it
\* and lacks a field of the range: it returned the fields inside only
C23_Witness ==
    \E r \in DOMAIN req :
        LET h == store[req[r].api_key]["rpm"]
            cur == get_current_segment(now)
        IN /\ req[r].checked
           /\ req[r].current_rpm = HGet(h, cur) + HGet(h, cur - segments + 1)
           /\ {cur, cur - segments + 1, cur - segments, cur + 1} \subseteq DOMAIN h
           /\ (cur - 1) \notin DOMAIN h
           /\ HashTotal(h) > req[r].current_rpm

\* C24: the three window sums of a Check reflect one state of the store: a
\* Record is counted in all of used_rpm, used_itpm and used_otpm of a snapshot
\* or in none of them (every Record adds at least 1 to each of the three).
C24_SnapshotOfOneStoreState ==
    \A r \in DOMAIN req :
        req[r].checked =>
            /\ (req[r].info.rpm_used = 0 <=> req[r].info.input_tpm_used = 0)
            /\ (req[r].info.rpm_used = 0 <=> req[r].info.output_tpm_used = 0)

\* the requests between the start of their Check and the end of their Record
InFlight == {r \in DOMAIN req : req[r].pc \notin {"new", "done"}}

\* C25: with at most C requests of a key in flight at once between their Check
\* and their Record, the rpm window sum of the key never exceeds
\* rpm_limit + (C - 1).
C25_OvercommitBoundedByConcurrency ==
    /\ Cardinality(InFlight) <= MaxCoreRequests
    /\ get_window_sum(store[CoreKey]["rpm"], get_window_start(now))
            <= get_api_key_limits(CoreKey).rpm + (MaxCoreRequests - 1)

\* the overcommit at its bound: a request admitted on a read of less than the
\* limit has recorded after the limit was reached
C25_Witness ==
    /\ get_window_sum(store[CoreKey]["rpm"], get_window_start(now))
            = get_api_key_limits(CoreKey).rpm + (MaxCoreRequests - 1)
    /\ \E r \in DOMAIN req :
            /\ req[r].recorded
            /\ req[r].current_rpm < get_api_key_limits(CoreKey).rpm
    /\ MaxCoreRequests > 1

\* the cleanup tasks that end in this step
Completing == {t \in BagToSet(tasks) : CopiesIn(t, tasks') < CopiesIn(t, tasks)}

\* C26: when a cleanup of a hash completes, the hash holds no field with an
\* index below current - segments + 1, current being the segment of the clock
\* at that moment.
C26_CleanupLeavesNoOldField ==
    [][\A t \in Completing :
            storeUp =>
                \A f \in DOMAIN store'[t.key][t.metric] : f >= get_window_start(now')]_vars

\* the fields of the hashes whose index is older than current - segments
StaleFields ==
    {<<k, m, f>> \in UNION {{<<k, m, f>> : f \in DOMAIN store[k][m]} : k \in Keys, m \in MetricSet} :
        f < get_current_segment(now) - segments}

\* C27: a field whose index has become older than current - segments is
\* eventually removed, by a cleanup spawned by a later Record of the key or by
\* the expiry of the key two windows after its last Record: whenever a hash
\* holds such fields, a moment comes when no hash holds any (the clock only
\* advances, so a field that is stale stays stale until it is removed).
C27_StaleFieldsEventuallyRemoved == (StaleFields # {}) ~> (StaleFields = {})

\* a field that had become stale was deleted by a cleanup task of a later
\* Record while its key had not expired: the hash still holds the later Record
C27_Witness ==
    /\ StaleFields = {}
    /\ \E r \in DOMAIN req :
        /\ req[r].recorded
        /\ req[r].current_segment < get_current_segment(now) - segments
        /\ store[req[r].api_key]["rpm"] # NoHash
        /\ req[r].current_segment \notin DOMAIN store[req[r].api_key]["rpm"]
        /\ removed[req[r].api_key]["rpm"] = 1

\* C28: no cleanup changes a window sum: a step of a cleanup task, or a clock
\* advance with the expiry of keys, removes or changes no field whose index is
\* inside the window current - segments + 1 .. current of the moment after the
\* step, and a step of a cleanup task leaves every window sum as it was.
C28_CleanupKeepsWindowFields ==
    [][req' = req =>
        \A k \in DOMAIN store : \A m \in MetricSet :
            /\ \A f \in DOMAIN store[k][m] :
                    f >= get_window_start(now')
                        => f \in DOMAIN store'[k][m] /\ store'[k][m][f] = store[k][m][f]
            /\ now' = now =>
                    get_window_sum(store'[k][m], get_window_start(now))
                        = get_window_sum(store[k][m], get_window_start(now))]_vars

\* a cleanup task has deleted an old field of a hash whose key had not
\* expired, and the Record inside the window is still counted
C28_Witness ==
    \E r \in DOMAIN req :
        /\ req[r].recorded
        /\ req[r].current_segment >= get_window_start(now)
        /\ removed[req[r].api_key]["rpm"] = 1
        /\ get_window_sum(store[req[r].api_key]["rpm"], get_window_start(now)) = 1
        /\ tasks = EmptyBag

\* C29: the output reservation of a Check is max_tokens whenever max_tokens is
\* set, 0 included, and 1000 only when it is unset.
C29_ReservationIsMaxTokensWhenSet ==
    \A r \in DOMAIN req :
        req[r].api_key # "" =>
            req[r].output_tokens
                = (IF req[r].max_tokens.set THEN req[r].max_tokens.value ELSE 1000)

====
